---- MODULE Spec2Model ----
(***************************************************************************)
(* Mergington High School activities API (src/src_app.py): the in-memory   *)
(* registry `activities`, the lock `_db_lock` and the signup handler       *)
(* `signup_for_activity`, run by concurrent request threads.               *)
(*                                                                         *)
(* Strings that the code inspects character by character (emails) are      *)
(* sequences of one-character strings, so that str.lower and str.endswith  *)
(* are computed; strings the code only compares or stores whole (activity  *)
(* names, descriptions, schedules) are TLA+ strings.                       *)
(***************************************************************************)
EXTENDS Integers, Sequences, FiniteSets, TLC

VARIABLES
    activities,     \* the registry: activity name -> record            (l.27)
    db_lock,        \* _db_lock: TRUE while some thread holds it        (l.85)
    pc,             \* per request thread: the line it is about to run
    activity_name,  \* per thread: the path parameter                   (l.127)
    payload,        \* per thread: payload.email as received            (l.127)
    email,          \* per thread: the local `email`                    (l.137)
    activity,       \* per thread: the local `activity` (a registry key, or None)
    response        \* per thread: HTTP status of its last finished call

vars == <<activities, db_lock, pc, activity_name, payload, email, activity, response>>

----------------------------------------------------------------------------
(* Bounds of the model *)

\* Number of distinct fresh students the environment can send.
MaxFillers == 10

\* The request threads (FastAPI runs sync handlers on a thread pool).
Threads == {"t1", "t2"}

----------------------------------------------------------------------------
(* Strings *)

SchoolDomain == <<"@", "m", "e", "r", "g", "i", "n", "g", "t", "o", "n", ".", "e", "d", "u">>

\* str.lower() on one character: the ASCII capitals map to their small letters.
UpperToLower ==
    [c \in {"A", "B", "C", "D", "E", "F", "G", "H", "I", "J", "K", "L", "M",
            "N", "O", "P", "Q", "R", "S", "T", "U", "V", "W", "X", "Y", "Z"} |->
        CASE c = "A" -> "a" [] c = "B" -> "b" [] c = "C" -> "c" [] c = "D" -> "d"
          [] c = "E" -> "e" [] c = "F" -> "f" [] c = "G" -> "g" [] c = "H" -> "h"
          [] c = "I" -> "i" [] c = "J" -> "j" [] c = "K" -> "k" [] c = "L" -> "l"
          [] c = "M" -> "m" [] c = "N" -> "n" [] c = "O" -> "o" [] c = "P" -> "p"
          [] c = "Q" -> "q" [] c = "R" -> "r" [] c = "S" -> "s" [] c = "T" -> "t"
          [] c = "U" -> "u" [] c = "V" -> "v" [] c = "W" -> "w" [] c = "X" -> "x"
          [] c = "Y" -> "y" [] c = "Z" -> "z"]

LowerChar(c) == IF c \in DOMAIN UpperToLower THEN UpperToLower[c] ELSE c

\* str.lower()
Lower(s) == [i \in 1..Len(s) |-> LowerChar(s[i])]

\* str.endswith(suffix)
EndsWith(s, suffix) ==
    /\ Len(s) >= Len(suffix)
    /\ SubSeq(s, Len(s) - Len(suffix) + 1, Len(s)) = suffix

\* `x in list`
InList(x, list) == \E i \in 1..Len(list) : list[i] = x

\* Variant: the domain is looked for anywhere in the email (`in`, not endswith).
validate_student_Contains(e) ==
    \E i \in 1..Len(e) :
        /\ i + Len(SchoolDomain) - 1 <= Len(e)
        /\ SubSeq(Lower(e), i, i + Len(SchoolDomain) - 1) = SchoolDomain

\* validate_student(email)
validate_student(e) == EndsWith(Lower(e), SchoolDomain)

----------------------------------------------------------------------------
(* The registry *)

None == "None"

SeedActivities ==
       "Chess Club" :> [description |-> "Learn strategies and compete in chess tournaments",
        schedule |-> "Fridays, 3:30 PM - 5:00 PM",
        max_participants |-> 12,
        participants |-> << <<"m", "i", "c", "h", "a", "e", "l">> \o SchoolDomain,
                            <<"d", "a", "n", "i", "e", "l">> \o SchoolDomain >>]
    @@ "Programming Class" :> [description |-> "Learn programming fundamentals and build software projects",
        schedule |-> "Tuesdays and Thursdays, 3:30 PM - 4:30 PM",
        max_participants |-> 20,
        participants |-> << <<"e", "m", "m", "a">> \o SchoolDomain,
                            <<"s", "o", "p", "h", "i", "a">> \o SchoolDomain >>]
    @@ "Gym Class" :> [description |-> "Physical education and sports activities",
        schedule |-> "Mondays, Wednesdays, Fridays, 2:00 PM - 3:00 PM",
        max_participants |-> 30,
        participants |-> << <<"j", "o", "h", "n">> \o SchoolDomain,
                            <<"o", "l", "i", "v", "i", "a">> \o SchoolDomain >>]
    @@ "Basketball Team" :> [description |-> "Join the competitive basketball team and compete in regional tournaments",
        schedule |-> "Mondays and Thursdays, 4:00 PM - 5:30 PM",
        max_participants |-> 15,
        participants |-> << <<"j", "a", "m", "e", "s">> \o SchoolDomain >>]
    @@ "Tennis Club" :> [description |-> "Learn tennis skills and participate in friendly matches",
        schedule |-> "Wednesdays and Saturdays, 3:00 PM - 4:30 PM",
        max_participants |-> 12,
        participants |-> << <<"l", "u", "c", "a", "s">> \o SchoolDomain,
                            <<"s", "o", "p", "h", "i", "a">> \o SchoolDomain >>]
    @@ "Drama Club" :> [description |-> "Perform in school plays and theatrical productions",
        schedule |-> "Tuesdays and Fridays, 4:00 PM - 5:30 PM",
        max_participants |-> 25,
        participants |-> << <<"i", "s", "a", "b", "e", "l", "l", "a">> \o SchoolDomain,
                            <<"a", "l", "e", "x", "a", "n", "d", "e", "r">> \o SchoolDomain >>]
    @@ "Art Studio" :> [description |-> "Explore various art techniques including painting, drawing, and sculpture",
        schedule |-> "Mondays and Wednesdays, 3:30 PM - 5:00 PM",
        max_participants |-> 18,
        participants |-> << <<"a", "v", "a">> \o SchoolDomain >>]
    @@ "Robotics Club" :> [description |-> "Build and program robots to compete in robotics competitions",
        schedule |-> "Thursdays and Saturdays, 3:00 PM - 5:00 PM",
        max_participants |-> 16,
        participants |-> << <<"n", "o", "a", "h">> \o SchoolDomain,
                            <<"l", "i", "a", "m">> \o SchoolDomain >>]
    @@ "Science Club" :> [description |-> "Conduct experiments and explore scientific concepts through hands-on activities",
        schedule |-> "Wednesdays, 3:30 PM - 5:00 PM",
        max_participants |-> 20,
        participants |-> << <<"c", "h", "a", "r", "l", "o", "t", "t", "e">> \o SchoolDomain >>]

\* HTTP status codes used by the handler
HTTP_201_CREATED == 201
HTTP_400_BAD_REQUEST == 400
HTTP_403_FORBIDDEN == 403
HTTP_404_NOT_FOUND == 404
HTTP_409_CONFLICT == 409

\* HTTPException(status_code, detail)
HTTPException(code, detail) == [status_code |-> code, detail |-> detail]

\* No call of the thread has finished yet.
NoResponse == [status_code |-> 0]

----------------------------------------------------------------------------
(* The environment: the requests clients send *)

Digit == <<"0", "1", "2", "3", "4", "5", "6", "7", "8", "9">>

\* The fresh students, "s01@mergington.edu", "s02@mergington.edu", ...
Fillers ==
    [i \in 1..(MaxFillers + 1) |->
        <<"s", Digit[(i \div 10) + 1], Digit[(i % 10) + 1]>> \o SchoolDomain]

Filler(i) == Fillers[i]

\* How many fresh students are enrolled somewhere.
FillersEnrolled ==
    Cardinality({i \in 1..MaxFillers :
        \E n \in DOMAIN activities : InList(Filler(i), activities[n].participants)})

\* Emails sent whatever the state: a new student (lower case and mixed case),
\* an enrolled student in another letter case, two addresses of other domains.
NewEmail == <<"n", "e", "w">> \o SchoolDomain
NewEmailMixedCase ==
    <<"N", "e", "w", "@", "M", "e", "r", "g", "i", "n", "g", "t", "o", "n", ".", "E", "D", "U">>
MichaelMixedCase == <<"M", "i", "c", "h", "a", "e", "l">> \o SchoolDomain
GmailEmail == <<"n", "e", "w", "@", "g", "m", "a", "i", "l", ".", "c", "o", "m">>
OrgEmail == <<"n", "e", "w">> \o SchoolDomain \o <<".", "o", "r", "g">>

FixedEmails == {NewEmail, NewEmailMixedCase, MichaelMixedCase, GmailEmail, OrgEmail}

\* The thread that serves the fresh students' requests.
FillerThread == "t1"

\* Fresh students are interchangeable, so they arrive in one order, the next
\* one being the first not enrolled yet.
RequestEmails(t) ==
    FixedEmails \cup
    (IF t = FillerThread /\ FillersEnrolled < MaxFillers THEN {Filler(FillersEnrolled + 1)} ELSE {})

\* The requests sent: any of the emails to "Chess Club", and a few to another
\* seeded activity and to an activity that does not exist.
Requests(t) ==
    ({"Chess Club"} \X RequestEmails(t))
    \cup ({"Knitting Club"} \X {NewEmail, GmailEmail})
    \cup ({"Tennis Club"} \X {NewEmail})

----------------------------------------------------------------------------
(* signup_for_activity, one action per step of a request thread *)

Init ==
    /\ activities = SeedActivities
    /\ db_lock = FALSE
    /\ pc = [t \in Threads |-> "idle"]
    /\ activity_name = [t \in Threads |-> None]
    /\ payload = [t \in Threads |-> <<>>]
    /\ email = [t \in Threads |-> <<>>]
    /\ activity = [t \in Threads |-> None]
    /\ response = [t \in Threads |-> NoResponse]

\* A request arrives and the handler is entered (l.126-127).
Call(t, name, em) ==
    /\ pc[t] \in {"idle", "done"}
    /\ pc' = [pc EXCEPT ![t] = "validate"]
    /\ activity_name' = [activity_name EXCEPT ![t] = name]
    /\ payload' = [payload EXCEPT ![t] = em]
    /\ email' = [email EXCEPT ![t] = <<>>]
    /\ activity' = [activity EXCEPT ![t] = None]
    /\ response' = [response EXCEPT ![t] = NoResponse]
    /\ UNCHANGED <<activities, db_lock>>

\* Variant: email = payload.email, without .lower().
Validate_NoLower(t) ==
    /\ pc[t] = "validate"
    /\ LET e == payload[t] IN
        /\ email' = [email EXCEPT ![t] = e]
        /\ IF ~validate_student(e)
           THEN /\ response' = [response EXCEPT ![t] =
                        HTTPException(HTTP_400_BAD_REQUEST, "Email must be a @mergington.edu address")]
                /\ pc' = [pc EXCEPT ![t] = "done"]
           ELSE /\ pc' = [pc EXCEPT ![t] = "acquire"]
                /\ UNCHANGED response
    /\ UNCHANGED <<activities, db_lock, activity_name, payload, activity>>

\* email = payload.email.lower(); if not validate_student(email): raise 400 (l.137-140).
Validate(t) ==
    /\ pc[t] = "validate"
    /\ LET e == Lower(payload[t]) IN
        /\ email' = [email EXCEPT ![t] = e]
        /\ IF ~validate_student(e)
           THEN /\ response' = [response EXCEPT ![t] =
                        HTTPException(HTTP_400_BAD_REQUEST, "Email must be a @mergington.edu address")]
                /\ pc' = [pc EXCEPT ![t] = "done"]
           ELSE /\ pc' = [pc EXCEPT ![t] = "acquire"]
                /\ UNCHANGED response
    /\ UNCHANGED <<activities, db_lock, activity_name, payload, activity>>

\* Variant: the thread enters the block without waiting for the lock.
Acquire_NoWait(t) ==
    /\ pc[t] = "acquire"
    /\ db_lock' = TRUE
    /\ pc' = [pc EXCEPT ![t] = "get"]
    /\ UNCHANGED <<activities, activity_name, payload, email, activity, response>>

\* with _db_lock: blocks until the lock is free, then takes it (l.142).
Acquire(t) ==
    /\ pc[t] = "acquire"
    /\ db_lock = FALSE
    /\ db_lock' = TRUE
    /\ pc' = [pc EXCEPT ![t] = "get"]
    /\ UNCHANGED <<activities, activity_name, payload, email, activity, response>>

\* Variant: the 404 leaves the lock held (acquire() without try/finally).
Get_NoRelease(t) ==
    /\ pc[t] = "get"
    /\ LET a == IF activity_name[t] \in DOMAIN activities THEN activity_name[t] ELSE None IN
        /\ activity' = [activity EXCEPT ![t] = a]
        /\ IF a = None
           THEN /\ response' = [response EXCEPT ![t] =
                        HTTPException(HTTP_404_NOT_FOUND, "Activity not found")]
                /\ pc' = [pc EXCEPT ![t] = "done"]
           ELSE /\ pc' = [pc EXCEPT ![t] = "dup"]
                /\ UNCHANGED response
    /\ UNCHANGED <<activities, db_lock, activity_name, payload, email>>

\* activity = activities.get(activity_name); if not activity: raise 404 (l.143-145).
\* The exception leaves the with block, which releases the lock.
Get(t) ==
    /\ pc[t] = "get"
    /\ LET a == IF activity_name[t] \in DOMAIN activities THEN activity_name[t] ELSE None IN
        /\ activity' = [activity EXCEPT ![t] = a]
        /\ IF a = None
           THEN /\ response' = [response EXCEPT ![t] =
                        HTTPException(HTTP_404_NOT_FOUND, "Activity not found")]
                /\ db_lock' = FALSE
                /\ pc' = [pc EXCEPT ![t] = "done"]
           ELSE /\ pc' = [pc EXCEPT ![t] = "dup"]
                /\ UNCHANGED <<response, db_lock>>
    /\ UNCHANGED <<activities, activity_name, payload, email>>

\* Variant: the duplicate check looks for payload.email as submitted.
CheckDup_RawEmail(t) ==
    /\ pc[t] = "dup"
    /\ IF InList(payload[t], activities[activity[t]].participants)
       THEN /\ response' = [response EXCEPT ![t] =
                    HTTPException(HTTP_409_CONFLICT, "Student already signed up for this activity")]
            /\ db_lock' = FALSE
            /\ pc' = [pc EXCEPT ![t] = "done"]
       ELSE /\ pc' = [pc EXCEPT ![t] = "cap"]
            /\ UNCHANGED <<response, db_lock>>
    /\ UNCHANGED <<activities, activity_name, payload, email, activity>>

\* if email in activity["participants"]: raise 409 (l.147-148).
CheckDup(t) ==
    /\ pc[t] = "dup"
    /\ IF InList(email[t], activities[activity[t]].participants)
       THEN /\ response' = [response EXCEPT ![t] =
                    HTTPException(HTTP_409_CONFLICT, "Student already signed up for this activity")]
            /\ db_lock' = FALSE
            /\ pc' = [pc EXCEPT ![t] = "done"]
       ELSE /\ pc' = [pc EXCEPT ![t] = "cap"]
            /\ UNCHANGED <<response, db_lock>>
    /\ UNCHANGED <<activities, activity_name, payload, email, activity>>

\* Variant: `>` instead of `>=`.
CheckCap_OffByOne(t) ==
    /\ pc[t] = "cap"
    /\ IF Len(activities[activity[t]].participants) > activities[activity[t]].max_participants
       THEN /\ response' = [response EXCEPT ![t] =
                    HTTPException(HTTP_403_FORBIDDEN, "Activity is full")]
            /\ db_lock' = FALSE
            /\ pc' = [pc EXCEPT ![t] = "done"]
       ELSE /\ pc' = [pc EXCEPT ![t] = "append"]
            /\ UNCHANGED <<response, db_lock>>
    /\ UNCHANGED <<activities, activity_name, payload, email, activity>>

\* Variant: the with block ends after the capacity check, so the append runs
\* without the lock.
CheckCap_EarlyRelease(t) ==
    /\ pc[t] = "cap"
    /\ db_lock' = FALSE
    /\ IF Len(activities[activity[t]].participants) >= activities[activity[t]].max_participants
       THEN /\ response' = [response EXCEPT ![t] =
                    HTTPException(HTTP_403_FORBIDDEN, "Activity is full")]
            /\ pc' = [pc EXCEPT ![t] = "done"]
       ELSE /\ pc' = [pc EXCEPT ![t] = "append"]
            /\ UNCHANGED response
    /\ UNCHANGED <<activities, activity_name, payload, email, activity>>

\* if len(activity["participants"]) >= activity["max_participants"]: raise 403 (l.150-151).
CheckCap(t) ==
    /\ pc[t] = "cap"
    /\ IF Len(activities[activity[t]].participants) >= activities[activity[t]].max_participants
       THEN /\ response' = [response EXCEPT ![t] =
                    HTTPException(HTTP_403_FORBIDDEN, "Activity is full")]
            /\ db_lock' = FALSE
            /\ pc' = [pc EXCEPT ![t] = "done"]
       ELSE /\ pc' = [pc EXCEPT ![t] = "append"]
            /\ UNCHANGED <<response, db_lock>>
    /\ UNCHANGED <<activities, activity_name, payload, email, activity>>

\* Variant: appends payload.email as submitted.
AppendParticipant_RawEmail(t) ==
    /\ pc[t] = "append"
    /\ activities' = [activities EXCEPT ![activity[t]].participants = Append(@, payload[t])]
    /\ db_lock' = FALSE
    /\ response' = [response EXCEPT ![t] =
            [status_code |-> HTTP_201_CREATED, message |-> <<"Signed up", email[t], "for", activity_name[t]>>]]
    /\ pc' = [pc EXCEPT ![t] = "done"]
    /\ UNCHANGED <<activity_name, payload, email, activity>>

\* Variant: activity["participants"] = [email].
AppendParticipant_Overwrite(t) ==
    /\ pc[t] = "append"
    /\ activities' = [activities EXCEPT ![activity[t]].participants = <<email[t]>>]
    /\ db_lock' = FALSE
    /\ response' = [response EXCEPT ![t] =
            [status_code |-> HTTP_201_CREATED, message |-> <<"Signed up", email[t], "for", activity_name[t]>>]]
    /\ pc' = [pc EXCEPT ![t] = "done"]
    /\ UNCHANGED <<activity_name, payload, email, activity>>

\* activity["participants"].append(email); the with block ends and releases
\* the lock; return {"message": ...} with status 201 (l.153-155).
AppendParticipant(t) ==
    /\ pc[t] = "append"
    /\ activities' = [activities EXCEPT ![activity[t]].participants = Append(@, email[t])]
    /\ db_lock' = FALSE
    /\ response' = [response EXCEPT ![t] =
            [status_code |-> HTTP_201_CREATED, message |-> <<"Signed up", email[t], "for", activity_name[t]>>]]
    /\ pc' = [pc EXCEPT ![t] = "done"]
    /\ UNCHANGED <<activity_name, payload, email, activity>>

Next ==
    \E t \in Threads :
        \/ \E r \in Requests(t) : Call(t, r[1], r[2])
        \/ Validate(t)
        \/ Acquire(t)
        \/ Get(t)
        \/ CheckDup(t)
        \/ CheckCap(t)
        \/ AppendParticipant(t)

Spec == Init /\ [][Next]_vars

\* Fair scheduling: a thread that can run its next line eventually runs it, and
\* a thread waiting for the lock eventually gets it if the lock keeps being
\* released. Clients are not obliged to send requests.
Fairness ==
    \A t \in Threads :
        /\ WF_vars(Validate(t))
        /\ SF_vars(Acquire(t))
        /\ WF_vars(Get(t))
        /\ WF_vars(CheckDup(t))
        /\ WF_vars(CheckCap(t))
        /\ WF_vars(AppendParticipant(t))

\* The requests of the liveness check: the fresh students in turn and a new
\* student on one thread and, on the other, the same new student in mixed
\* case, an outside email and a signup to an activity that does not exist.
FairRequests(t) ==
    IF t = FillerThread
    THEN {"Chess Club"} \X ((RequestEmails(t) \ FixedEmails) \cup {NewEmail})
    ELSE {<<"Chess Club", NewEmailMixedCase>>, <<"Chess Club", GmailEmail>>,
          <<"Knitting Club", NewEmail>>}

FairNext ==
    \E t \in Threads :
        \/ \E r \in FairRequests(t) : Call(t, r[1], r[2])
        \/ Validate(t)
        \/ Acquire(t)
        \/ Get(t)
        \/ CheckDup(t)
        \/ CheckCap(t)
        \/ AppendParticipant(t)

FairSpec == Init /\ [][FairNext]_vars /\ Fairness

----------------------------------------------------------------------------
(* Vocabulary of the properties *)

\* The positions of a thread between taking and releasing the lock.
Locked == {"get", "dup", "cap", "append"}

Participants(n) == activities[n].participants

IsFull(n) == Len(Participants(n)) = activities[n].max_participants

\* The email ends, letter case aside, with "@mergington.edu".
IsInstitutional(e) ==
    /\ Len(e) >= Len(SchoolDomain)
    /\ \A i \in 1..Len(SchoolDomain) :
        LowerChar(e[Len(e) - Len(SchoolDomain) + i]) = SchoolDomain[i]

\* No capital letter occurs in the email.
IsLowerCase(e) == \A i \in 1..Len(e) : e[i] \notin DOMAIN UpperToLower

IsPrefix(s, r) == Len(s) <= Len(r) /\ \A i \in 1..Len(s) : s[i] = r[i]

\* Thread t takes a step (every step of a thread moves its position).
Moved(t) == pc'[t] # pc[t]

\* Thread t leaves the locked region and finishes its call in this step.
Completes(t) == pc[t] \in Locked /\ pc'[t] = "done"

Finished(t, code) == pc[t] = "done" /\ response[t].status_code = code

----------------------------------------------------------------------------
(* C1 *)

\* C1: in every reachable state every activity has at most max_participants
\* participants and no email twice in its participants.
C1_CapacityAndUnique ==
    \A n \in DOMAIN activities :
        /\ Len(Participants(n)) <= activities[n].max_participants
        /\ \A i, j \in 1..Len(Participants(n)) :
            i # j => Participants(n)[i] # Participants(n)[j]

\* "Chess Club" is full and a further student has been turned away.
C1_Witness ==
    /\ IsFull("Chess Club")
    /\ \E t \in Threads :
        /\ Finished(t, HTTP_403_FORBIDDEN)
        /\ activity_name[t] = "Chess Club"
    /\ Len(Participants("Tennis Club")) = 3

(* C2 *)

\* C2: a finished signup to an activity name absent from the registry has
\* answered 404, whatever the email.
C2_NotFoundFirst ==
    \A t \in Threads :
        (pc[t] = "done" /\ activity_name[t] \notin DOMAIN activities)
            => response[t].status_code = HTTP_404_NOT_FOUND

(* C3 *)

C3_Answer ==
    \A t \in Threads :
        (/\ pc[t] = "done"
         /\ activity_name[t] \in DOMAIN activities
         /\ ~IsInstitutional(payload[t]))
            => response[t].status_code = HTTP_400_BAD_REQUEST

C3_Step ==
    \A t \in Threads :
        (/\ Moved(t)
         /\ activity_name'[t] \in DOMAIN activities
         /\ ~IsInstitutional(payload'[t]))
            => /\ activities' = activities
               /\ pc'[t] \in {"validate", "done"}

\* C3: a signup to an existing activity with an email that does not end, letter
\* case aside, with "@mergington.edu" answers 400, and no step of that call
\* changes the registry or reaches the lock, whatever the activity's occupancy.
C3_InvalidEmailRejected == []C3_Answer /\ [][C3_Step]_vars

\* An outside email has been refused on "Chess Club" while it is full.
C3_Witness ==
    /\ IsFull("Chess Club")
    /\ \E t \in Threads :
        /\ Finished(t, HTTP_400_BAD_REQUEST)
        /\ activity_name[t] = "Chess Club"
        /\ payload[t] = OrgEmail

(* C4 *)

C4_Step ==
    \A t \in Threads :
        (/\ Completes(t)
         /\ activity_name[t] \in DOMAIN activities
         /\ InList(Lower(payload[t]), Participants(activity_name[t])))
            => /\ response'[t].status_code = HTTP_409_CONFLICT
               /\ activities' = activities

\* C4: a signup whose lower-cased email is already a participant of the target
\* activity answers 409 and leaves the registry unchanged, full or not, and
\* whatever the letter case of the submitted email.
C4_DuplicateConflict == [][C4_Step]_vars

\* A mixed-case resubmission has been refused with 409 on a full "Chess Club".
C4_Witness ==
    /\ IsFull("Chess Club")
    /\ \E t \in Threads :
        /\ Finished(t, HTTP_409_CONFLICT)
        /\ activity_name[t] = "Chess Club"
        /\ payload[t] # Lower(payload[t])

(* C5 *)

C5_Step ==
    \A t \in Threads :
        (/\ Completes(t)
         /\ activity_name[t] \in DOMAIN activities
         /\ IsFull(activity_name[t])
         /\ ~InList(Lower(payload[t]), Participants(activity_name[t])))
            => /\ response'[t].status_code = HTTP_403_FORBIDDEN
               /\ activities' = activities

\* C5: a signup of an email that is not a participant to an activity whose
\* participants number max_participants answers 403 and leaves the registry
\* unchanged.
C5_FullForbidden == [][C5_Step]_vars

\* A new student has been refused with 403 on a full "Chess Club".
C5_Witness ==
    \E t \in Threads :
        /\ Finished(t, HTTP_403_FORBIDDEN)
        /\ activity_name[t] = "Chess Club"
        /\ IsFull("Chess Club")
        /\ ~InList(Lower(payload[t]), Participants("Chess Club"))

(* C6 *)

C6_Step ==
    \A t \in Threads :
        (/\ Completes(t)
         /\ activity_name[t] \in DOMAIN activities
         /\ ~InList(Lower(payload[t]), Participants(activity_name[t]))
         /\ Len(Participants(activity_name[t])) < activities[activity_name[t]].max_participants)
            => /\ response'[t].status_code = HTTP_201_CREATED
               /\ activities'[activity_name[t]].participants =
                    Append(Participants(activity_name[t]), Lower(payload[t]))
               /\ Len(activities'[activity_name[t]].participants) =
                    Len(Participants(activity_name[t])) + 1

C6_ExampleStep ==
    \A t \in Threads :
        (/\ Completes(t)
         /\ activities = SeedActivities
         /\ activity_name[t] = "Chess Club"
         /\ payload[t] = NewEmail)
            => /\ Len(Participants("Chess Club")) = 2
               /\ activities["Chess Club"].max_participants = 12
               /\ response'[t].status_code = HTTP_201_CREATED
               /\ Len(activities'["Chess Club"].participants) = 3
               /\ InList(NewEmail, activities'["Chess Club"].participants)

\* C6: a signup of an institutional email that is not a participant, to an
\* activity below capacity, answers 201 and appends the lower-cased email once
\* at the end of its participants, which grow by exactly one; signing
\* "new@mergington.edu" up for the seed "Chess Club" (2 of 12) yields 3
\* participants, that email among them.
C6_SuccessAppends == [][C6_Step /\ C6_ExampleStep]_vars

\* "new@mergington.edu" has been signed up for the seed "Chess Club".
C6_Witness ==
    /\ Participants("Chess Club") =
            Append(SeedActivities["Chess Club"].participants, NewEmail)
    /\ Len(Participants("Chess Club")) = 3
    /\ \E t \in Threads :
        /\ Finished(t, HTTP_201_CREATED)
        /\ activity_name[t] = "Chess Club"
        /\ payload[t] = NewEmail

(* C7 *)

\* One signup run alone on registry reg: its status and the registry after it
\* (the email is institutional and lower-cased, as after the domain check).
Sequential(reg, n, e) ==
    IF n \notin DOMAIN reg THEN <<HTTP_404_NOT_FOUND, reg>>
    ELSE IF InList(e, reg[n].participants) THEN <<HTTP_409_CONFLICT, reg>>
    ELSE IF Len(reg[n].participants) >= reg[n].max_participants THEN <<HTTP_403_FORBIDDEN, reg>>
    ELSE <<HTTP_201_CREATED, [reg EXCEPT ![n].participants = Append(@, e)]>>

C7_MutualExclusion ==
    /\ \A t1, t2 \in Threads : (pc[t1] \in Locked /\ pc[t2] \in Locked) => t1 = t2
    /\ db_lock <=> \E t \in Threads : pc[t] \in Locked

\* The checks a thread has passed still hold when it reaches the next line.
C7_ChecksStable ==
    \A t \in Threads :
        /\ pc[t] \in {"cap", "append"} => ~InList(email[t], Participants(activity[t]))
        /\ pc[t] = "append" =>
            Len(Participants(activity[t])) < activities[activity[t]].max_participants

\* Two finished signups of one email to one activity have not both succeeded.
C7_OneSuccessPerEmail ==
    \A t1, t2 \in Threads :
        (/\ t1 # t2
         /\ Finished(t1, HTTP_201_CREATED)
         /\ Finished(t2, HTTP_201_CREATED)
         /\ activity_name[t1] = activity_name[t2])
            => Lower(payload[t1]) # Lower(payload[t2])

C7_Step ==
    /\ \A t \in Threads :
        /\ Completes(t) =>
            <<response'[t].status_code, activities'>> =
                Sequential(activities, activity_name[t], Lower(payload[t]))
        /\ (pc[t] \in Locked /\ ~Moved(t)) => activities' = activities
    /\ activities' # activities => \E t \in Threads : Completes(t)

\* C7: the lock serializes the signups: at most one thread is between taking
\* and releasing it, the registry does not change under a thread that holds it,
\* and every call that took the lock has, at the step that ends it, the status
\* and the effect of a signup run alone on the registry of that moment, so the
\* outcomes and the registry are those of the calls run one after the other.
C7_Serialized ==
    /\ [](C7_MutualExclusion /\ C7_ChecksStable /\ C7_OneSuccessPerEmail)
    /\ [][C7_Step]_vars

\* Two signups with different new emails contend for the last free slot of
\* "Chess Club": one holds the lock, the other waits for it.
C7_Witness ==
    \E t1, t2 \in Threads :
        /\ pc[t1] \in Locked
        /\ pc[t2] = "acquire"
        /\ activity_name[t1] = "Chess Club"
        /\ activity_name[t2] = "Chess Club"
        /\ Len(Participants("Chess Club")) + 1 = activities["Chess Club"].max_participants
        /\ email[t1] # email[t2]
        /\ ~InList(email[t1], Participants("Chess Club"))
        /\ ~InList(email[t2], Participants("Chess Club"))

(* C8 *)

C8_Step ==
    /\ DOMAIN activities' = DOMAIN activities
    /\ \A n \in DOMAIN activities :
        /\ activities'[n].description = activities[n].description
        /\ activities'[n].schedule = activities[n].schedule
        /\ activities'[n].max_participants = activities[n].max_participants
        /\ DOMAIN activities'[n] = DOMAIN activities[n]
        /\ IsPrefix(Participants(n), activities'[n].participants)
        /\ activities'[n] # activities[n] =>
            \E t \in Threads : Moved(t) /\ activity_name[t] = n

\* C8: every step keeps the set of activity names and each record's
\* description, schedule and max_participants, changes the participants of no
\* activity but the one named by the call that takes the step, and keeps the
\* participants enrolled before as a prefix of the new list.
C8_Frame == [][C8_Step]_vars

\* Both "Chess Club" and "Tennis Club" have grown and a signup has failed.
C8_Witness ==
    /\ Len(Participants("Chess Club")) > Len(SeedActivities["Chess Club"].participants) + 1
    /\ Len(Participants("Tennis Club")) > Len(SeedActivities["Tennis Club"].participants)
    /\ \E t \in Threads : Finished(t, HTTP_409_CONFLICT)

(* C9 *)

Outcomes ==
    {HTTP_201_CREATED, HTTP_400_BAD_REQUEST, HTTP_404_NOT_FOUND,
     HTTP_409_CONFLICT, HTTP_403_FORBIDDEN}

C9_LockFreeAtRest ==
    /\ (\A t \in Threads : pc[t] \notin Locked) => ~db_lock
    /\ \A t \in Threads : pc[t] = "done" => response[t].status_code \in Outcomes

C9_Step == \A t \in Threads : Completes(t) => ~db_lock'

\* C9: the step that ends a call that took the lock releases it, whatever the
\* outcome, so the lock is free whenever no call is between taking and
\* releasing it; under fair scheduling the lock, once held, is released, and
\* every call that has started finishes with one of 201, 400, 404, 409, 403.
C9_LockReleased ==
    /\ []C9_LockFreeAtRest
    /\ [][C9_Step]_vars
    /\ db_lock ~> ~db_lock
    /\ \A t \in Threads :
        (pc[t] \notin {"idle", "done"}) ~>
            (pc[t] = "done" /\ response[t].status_code \in Outcomes)

\* After a signup failed with 404 under the lock, another call holds the lock.
C9_Witness ==
    \E t1, t2 \in Threads :
        /\ Finished(t1, HTTP_404_NOT_FOUND)
        /\ pc[t2] = "append"
        /\ db_lock

(* C10 *)

\* C10: every email stored in any activity's participants has no capital
\* letter and ends with "@mergington.edu".
C10_StoredEmailsNormalised ==
    \A n \in DOMAIN activities :
        \A i \in 1..Len(Participants(n)) :
            /\ IsLowerCase(Participants(n)[i])
            /\ Len(Participants(n)[i]) >= Len(SchoolDomain)
            /\ \A k \in 1..Len(SchoolDomain) :
                Participants(n)[i][Len(Participants(n)[i]) - Len(SchoolDomain) + k]
                    = SchoolDomain[k]

\* A student who signed up as "New@Mergington.EDU" is stored in lower case.
C10_Witness ==
    \E t \in Threads :
        /\ Finished(t, HTTP_201_CREATED)
        /\ payload[t] = NewEmailMixedCase
        /\ InList(NewEmail, Participants(activity_name[t]))
        /\ ~InList(NewEmailMixedCase, Participants(activity_name[t]))

====
